---- MODULE Spec2Model ----
(***************************************************************************)
(* Model of the x86_64 dev backend of compiler/gen_dev                     *)
(* (src/compiler/gen_dev/src/x86_64/mod.rs).                               *)
(*                                                                         *)
(* One X86_64Backend value is the state.  Its methods are operators that   *)
(* take the struct and give back the struct after the call (and the value  *)
(* the call returns); one action per method applies the operator.          *)
(*                                                                         *)
(* An i64 is kept as three limbs [hi, mid, lo] with                        *)
(*     value = hi * 2^32 + mid * 2^16 + lo,                                *)
(*     hi \in -2^31 .. 2^31-1,  mid, lo \in 0 .. 65535,                    *)
(* because the model checker's integers are 32 bits wide.  This is the     *)
(* two's complement value split at bits 16 and 32, so signed order is the  *)
(* lexicographic order of (hi, mid, lo).                                   *)
(***************************************************************************)
EXTENDS Integers, Sequences, FiniteSets, TLC

VARIABLES
    target,     \* what target.default_calling_convention() resolves to
    backend,    \* the X86_64Backend struct, or None when new() failed
    op,         \* the last call made: method name and its arguments
    ret,        \* the value that call returned
    hist,       \* per symbol, the last call that touched its table entry
    loads       \* the loads that returned Ok since new() or the last reset()

vars == <<target, backend, op, ret, hist, loads>>

None == [none |-> TRUE]

-----------------------------------------------------------------------------
(* Bounds of the model *)

\* largest number of instructions the body buffer holds in Spec
MaxLoads == 2

\* largest number of instructions the body buffer holds in SpecWide
MaxWideLoads == 1

Symbols == {"s1", "s2"}

WideSymbols == {"s1"}

-----------------------------------------------------------------------------
(* 64-bit and 32-bit integers *)

I64(h, m, l) == [hi |-> h, mid |-> m, lo |-> l]

\* signed comparison a <= b of two i64
Le64(a, b) ==
    \/ a.hi < b.hi
    \/ a.hi = b.hi /\ a.mid < b.mid
    \/ a.hi = b.hi /\ a.mid = b.mid /\ a.lo <= b.lo

\* i32::MAX as i64
I32_MAX_as_i64 == I64(0, 32767, 65535)

\* i32::MIN as i64
I32_MIN_as_i64 == I64(-1, 32768, 0)

\* val as i32: keeps the low 32 bits, read as a signed number
as_i32(val) ==
    IF val.mid >= 32768
    THEN (val.mid - 65536) * 65536 + val.lo
    ELSE val.mid * 65536 + val.lo

\* i32::to_le_bytes
i32_to_le_bytes(x) ==
    << x % 256, (x \div 256) % 256, (x \div 65536) % 256, (x \div 16777216) % 256 >>

\* i64::to_le_bytes
i64_to_le_bytes(v) ==
    << v.lo % 256, v.lo \div 256, v.mid % 256, v.mid \div 256 >> \o i32_to_le_bytes(v.hi)

-----------------------------------------------------------------------------
(* asm: registers and the instruction encoder *)

Registers ==
    {"RAX", "RCX", "RDX", "RBX", "RSP", "RBP", "RSI", "RDI",
     "R8", "R9", "R10", "R11", "R12", "R13", "R14", "R15"}

\* the discriminant of a Register
RegNum(r) ==
    CASE r = "RAX" -> 0  [] r = "RCX" -> 1  [] r = "RDX" -> 2  [] r = "RBX" -> 3
      [] r = "RSP" -> 4  [] r = "RBP" -> 5  [] r = "RSI" -> 6  [] r = "RDI" -> 7
      [] r = "R8"  -> 8  [] r = "R9"  -> 9  [] r = "R10" -> 10 [] r = "R11" -> 11
      [] r = "R12" -> 12 [] r = "R13" -> 13 [] r = "R14" -> 14 [] r = "R15" -> 15

REX_W == 72  \* 0x48

\* REX.W, with REX.B set for r8..r15 in the r/m or opcode register field
add_rm_extension(r, rex) == IF RegNum(r) > 7 THEN rex + 1 ELSE rex

\* REX.R set for r8..r15 in the reg field
add_reg_extension(r, rex) == IF RegNum(r) > 7 THEN rex + 4 ELSE rex

\* MOV r/m64, imm32 (sign-extended): REX.W C7 /0 id
mov_register64bit_immediate32bit(buf, dst, imm) ==
    buf \o << add_rm_extension(dst, REX_W), 199, 192 + (RegNum(dst) % 8) >>
        \o i32_to_le_bytes(imm)

\* MOV r64, imm64: REX.W B8+rd io
mov_register64bit_immediate64bit(buf, dst, imm) ==
    buf \o << add_rm_extension(dst, REX_W), 184 + (RegNum(dst) % 8) >>
        \o i64_to_le_bytes(imm)

\* MOV r/m64, r64: REX.W 89 /r
mov_register64bit_register64bit(buf, dst, src) ==
    buf \o << add_reg_extension(src, add_rm_extension(dst, REX_W)), 137,
              192 + (RegNum(dst) % 8) + 8 * (RegNum(src) % 8) >>

\* PUSH r64: 50+rd
push_register64bit(buf, reg) ==
    IF RegNum(reg) > 7
    THEN buf \o << 65, 80 + (RegNum(reg) % 8) >>
    ELSE buf \o << 80 + RegNum(reg) >>

\* POP r64: 58+rd
pop_register64bit(buf, reg) ==
    IF RegNum(reg) > 7
    THEN buf \o << 65, 88 + (RegNum(reg) % 8) >>
    ELSE buf \o << 88 + RegNum(reg) >>

\* RET (near): C3
ret_near(buf) == buf \o << 195 >>

-----------------------------------------------------------------------------
(* Values of the intermediate representation *)

IntLit(v) == [tag |-> "Int", int |-> v]

BoolLit(b) == [tag |-> "Bool", bool |-> b]

\* the literals bound in Spec: a small one, one beyond i32, one that is no Int
Lits == { IntLit(I64(0, 0, 42)), IntLit(I64(0, 32768, 0)), BoolLit(TRUE) }

\* the literals bound in SpecWide: both sides of both ends of the i32 range
WideLits ==
    { IntLit(I64(0, 0, 42)),
      IntLit(I64(-1, 65535, 65535)),          \* -1
      IntLit(I64(0, 32767, 65535)),           \* 2^31 - 1
      IntLit(I64(0, 32768, 0)),               \* 2^31
      IntLit(I64(-1, 32768, 0)),              \* -2^31
      IntLit(I64(-1, 32767, 65535)),          \* -2^31 - 1
      IntLit(I64(2147483647, 65535, 65535)),  \* 9223372036854775807
      IntLit(I64(-2147483647 - 1, 0, 0)) }    \* -9223372036854775808

\* the registers load_symbol is asked to load into
DstRegs == {"R9"}

WideDstRegs == {"RCX", "RBP", "R8", "R15"}

\* what Triple::default_calling_convention() can give
Targets ==
    { [ok |-> TRUE,  cc |-> "SystemV"],
      [ok |-> TRUE,  cc |-> "WindowsFastcall"],
      [ok |-> TRUE,  cc |-> "WasmBasicCAbi"],
      [ok |-> FALSE, cc |-> "()"] }

\* {:?} of a Result<CallingConvention, ()>
Debug(x) == IF x.ok THEN "Ok(" \o x.cc \o ")" ELSE "Err(" \o x.cc \o ")"

-----------------------------------------------------------------------------
(* The backend *)

RETURN_REG == "RAX"

Literal(lit) == [kind |-> "Literal", lit |-> lit]

RegisterStorage(reg, layout) == [kind |-> "Register", reg |-> reg, layout |-> layout]

StackStorage(offset, layout) == [kind |-> "Stack", offset |-> offset, layout |-> layout]

\* one storage of each kind, and a Literal of each kind
Storages ==
    { Literal(IntLit(I64(0, 0, 42))),
      Literal(BoolLit(TRUE)),
      RegisterStorage("RBX", "Builtin(Int64)"),
      StackStorage(8, "Builtin(Int64)") }

EmptyMap == [s \in {} |-> None]

Ok(v) == [ok |-> TRUE, val |-> v]

Err(e) == [ok |-> FALSE, err |-> e]

\* the struct new() builds for CallingConvention::SystemV
SystemVBackend ==
    [ leaf_proc |-> TRUE,
      buf |-> << >>,
      last_seen_map |-> EmptyMap,
      symbols_map |-> EmptyMap,
      gp_param_regs |-> << "RDI", "RSI", "RDX", "RCX", "R8", "R9" >>,
      caller_saved_regs |->
          {"RAX", "RCX", "RDX", "RSP", "RSI", "RDI", "R8", "R9", "R10", "R11"},
      callee_saved_regs |-> {"RBX", "RBP", "R12", "R13", "R14", "R15"},
      shadow_space_size |-> 0,
      red_zone_size |-> 128,
      stack_size |-> 0 ]

\* the struct new() builds for CallingConvention::WindowsFastcall
WindowsFastcallBackend ==
    [ leaf_proc |-> TRUE,
      buf |-> << >>,
      last_seen_map |-> EmptyMap,
      symbols_map |-> EmptyMap,
      gp_param_regs |-> << "RCX", "RDX", "R8", "R9" >>,
      caller_saved_regs |-> {"RAX", "RCX", "RDX", "R8", "R9", "R10", "R11"},
      callee_saved_regs |->
          {"RBX", "RBP", "RSI", "RSP", "RDI", "R12", "R13", "R14", "R15"},
      shadow_space_size |-> 32,
      red_zone_size |-> 0,
      stack_size |-> 0 ]

\* a slip in the match: every resolved convention but Windows gets the
\* System-V struct
new_any_resolved_is_systemv(t) ==
    IF t.ok /\ t.cc = "WindowsFastcall" THEN Ok(WindowsFastcallBackend)
    ELSE IF t.ok THEN Ok(SystemVBackend)
    ELSE Err("unsupported backend: " \o Debug(t))

\* a slip in the Windows arm: the parameter registers of System-V
new_windows_params_of_systemv(t) ==
    IF t.ok /\ t.cc = "SystemV" THEN Ok(SystemVBackend)
    ELSE IF t.ok /\ t.cc = "WindowsFastcall"
         THEN Ok([WindowsFastcallBackend EXCEPT
                     !.gp_param_regs = SystemVBackend.gp_param_regs])
    ELSE Err("unsupported backend: " \o Debug(t))

\* a slip in the Windows arm: RSI is listed as caller-saved too
new_windows_rsi_in_both(t) ==
    IF t.ok /\ t.cc = "SystemV" THEN Ok(SystemVBackend)
    ELSE IF t.ok /\ t.cc = "WindowsFastcall"
         THEN Ok([WindowsFastcallBackend EXCEPT
                     !.caller_saved_regs = @ \cup {"RSI"}])
    ELSE Err("unsupported backend: " \o Debug(t))

new(t) ==
    IF t.ok /\ t.cc = "SystemV" THEN Ok(SystemVBackend)
    ELSE IF t.ok /\ t.cc = "WindowsFastcall" THEN Ok(WindowsFastcallBackend)
    ELSE Err("unsupported backend: " \o Debug(t))

\* a slip: the body buffer is not cleared
reset_keeps_buf(self) == [self EXCEPT !.symbols_map = EmptyMap]

\* a slip: reset rebuilds the struct the way the first arm of new() does
reset_rebuilds_systemv(self) == SystemVBackend

reset(self) == [self EXCEPT !.symbols_map = EmptyMap, !.buf = << >>]

last_seen_map(self) == self.last_seen_map

\* a slip: an entry that is there is kept (entry().or_insert())
set_symbol_to_lit_keeps_old(self, sym, lit) ==
    [self EXCEPT !.symbols_map =
        [s \in DOMAIN self.symbols_map \cup {sym} |->
            IF s \in DOMAIN self.symbols_map THEN self.symbols_map[s]
            ELSE Literal(lit)]]

set_symbol_to_lit(self, sym, lit) ==
    [self EXCEPT !.symbols_map =
        [s \in DOMAIN self.symbols_map \cup {sym} |->
            IF s = sym THEN Literal(lit) ELSE self.symbols_map[s]]]

\* a slip: the entry is left in the table
free_symbol_keeps_entry(self, sym) == self

\* a slip: the whole table is cleared
free_symbol_clears_table(self, sym) == [self EXCEPT !.symbols_map = EmptyMap]

free_symbol(self, sym) ==
    [self EXCEPT !.symbols_map =
        [s \in DOMAIN self.symbols_map \ {sym} |-> self.symbols_map[s]]]

requires_stack_modification(self) ==
    \/ ~self.leaf_proc
    \/ self.stack_size < self.shadow_space_size + self.red_zone_size

\* a slip: only the upper end of the i32 range is tested
load_int_no_lower_test(self, dst, val) ==
    IF Le64(val, I32_MAX_as_i64)
    THEN [self EXCEPT !.buf =
              mov_register64bit_immediate32bit(self.buf, dst, as_i32(val))]
    ELSE [self EXCEPT !.buf =
              mov_register64bit_immediate64bit(self.buf, dst, val)]

\* a slip: the instruction is put in front of the body
load_int_prepends(self, dst, val) ==
    IF Le64(val, I32_MAX_as_i64) /\ Le64(I32_MIN_as_i64, val)
    THEN [self EXCEPT !.buf =
              mov_register64bit_immediate32bit(<< >>, dst, as_i32(val)) \o self.buf]
    ELSE [self EXCEPT !.buf =
              mov_register64bit_immediate64bit(<< >>, dst, val) \o self.buf]

\* the arm of load_symbol for Literal::Int(x): the struct after it
load_int(self, dst, val) ==
    IF Le64(val, I32_MAX_as_i64) /\ Le64(I32_MIN_as_i64, val)
    THEN [self EXCEPT !.buf =
              mov_register64bit_immediate32bit(self.buf, dst, as_i32(val))]
    ELSE [self EXCEPT !.buf =
              mov_register64bit_immediate64bit(self.buf, dst, val)]

NotYetImplemented(x) ==
    Err([msg |-> "symbol, {:?}, is not yet implemented", storage |-> x])

UnknownSymbol(sym) == Err([msg |-> "Unknown return symbol: {}", sym |-> sym])

\* a slip: the load takes the entry out of the table
load_symbol_consumes_entry(self, dst, sym) ==
    IF sym \in DOMAIN self.symbols_map THEN
        LET x == self.symbols_map[sym] IN
        IF x.kind = "Literal" /\ x.lit.tag = "Int"
        THEN [self |-> free_symbol(load_int(self, dst, x.lit.int), sym),
              res |-> Ok("()")]
        ELSE [self |-> self, res |-> NotYetImplemented(x)]
    ELSE [self |-> self, res |-> UnknownSymbol(sym)]

\* a slip: the REX prefix is written before the storage kind is matched
load_symbol_writes_before_match(self, dst, sym) ==
    IF sym \in DOMAIN self.symbols_map THEN
        LET x == self.symbols_map[sym] IN
        IF x.kind = "Literal" /\ x.lit.tag = "Int"
        THEN [self |-> load_int(self, dst, x.lit.int), res |-> Ok("()")]
        ELSE [self |-> [self EXCEPT !.buf = self.buf \o << add_rm_extension(dst, REX_W) >>],
              res |-> NotYetImplemented(x)]
    ELSE [self |-> self, res |-> UnknownSymbol(sym)]

\* a slip: every entry that is not an Int literal is reported as unknown
load_symbol_other_is_unknown(self, dst, sym) ==
    IF sym \in DOMAIN self.symbols_map THEN
        LET x == self.symbols_map[sym] IN
        IF x.kind = "Literal" /\ x.lit.tag = "Int"
        THEN [self |-> load_int(self, dst, x.lit.int), res |-> Ok("()")]
        ELSE [self |-> self, res |-> UnknownSymbol(sym)]
    ELSE [self |-> self, res |-> UnknownSymbol(sym)]

\* a slip: a load marks the procedure as not a leaf
load_symbol_clears_leaf(self, dst, sym) ==
    IF sym \in DOMAIN self.symbols_map THEN
        LET x == self.symbols_map[sym] IN
        IF x.kind = "Literal" /\ x.lit.tag = "Int"
        THEN [self |-> [load_int(self, dst, x.lit.int) EXCEPT !.leaf_proc = FALSE],
              res |-> Ok("()")]
        ELSE [self |-> self, res |-> NotYetImplemented(x)]
    ELSE [self |-> self, res |-> UnknownSymbol(sym)]

\* gives the struct after the call and the Result the call returns
load_symbol(self, dst, sym) ==
    IF sym \in DOMAIN self.symbols_map THEN
        LET x == self.symbols_map[sym] IN
        IF x.kind = "Literal" /\ x.lit.tag = "Int"
        THEN [self |-> load_int(self, dst, x.lit.int), res |-> Ok("()")]
        ELSE [self |-> self, res |-> NotYetImplemented(x)]
    ELSE [self |-> self, res |-> UnknownSymbol(sym)]

return_symbol(self, sym) == load_symbol(self, RETURN_REG, sym)

\* a slip: the frame is set up but never torn down
finalize_no_epilogue(self) ==
    LET out0 == << >>
        out1 == IF requires_stack_modification(self)
                THEN mov_register64bit_register64bit(
                         push_register64bit(out0, "RBP"), "RBP", "RSP")
                ELSE out0
        out2 == out1 \o self.buf
        out4 == ret_near(out2)
    IN  Ok([bytes |-> out4, relocs |-> << >>])

\* a slip: an empty body is reported as an error
finalize_fails_on_empty_body(self) ==
    IF self.buf = << >> THEN Err("empty body")
    ELSE Ok([bytes |-> ret_near(
                 pop_register64bit(
                     mov_register64bit_register64bit(
                         push_register64bit(<< >>, "RBP"), "RBP", "RSP")
                     \o self.buf, "RBP")),
             relocs |-> << >>])

\* gives the Result the call returns; the struct is not written
finalize(self) ==
    LET out0 == << >>
        out1 == IF requires_stack_modification(self)
                THEN mov_register64bit_register64bit(
                         push_register64bit(out0, "RBP"), "RBP", "RSP")
                ELSE out0
        out2 == out1 \o self.buf
        out3 == IF requires_stack_modification(self)
                THEN pop_register64bit(out2, "RBP")
                ELSE out2
        out4 == ret_near(out3)
    IN  Ok([bytes |-> out4, relocs |-> << >>])

\* a slip: the body is moved out of the struct (buf.drain(..))
finalize_self_drains_buf(self) == [self EXCEPT !.buf = << >>]

\* the struct after finalize(): it takes &mut self and only reads it
finalize_self(self) == self

-----------------------------------------------------------------------------
(* The state machine *)

Call(name, dst, sym) == [name |-> name, dst |-> dst, sym |-> sym]

\* a call of set_symbol_to_lit, with the literal it is given
BindCall(sym, lit) ==
    [name |-> "set_symbol_to_lit", dst |-> "-", sym |-> sym, lit |-> lit]

\* what a load that returned Ok was asked for
Load(dst, val) == [dst |-> dst, val |-> val]

\* the loads after one more call of load_symbol
Logged(self, dst, sym) ==
    IF load_symbol(self, dst, sym).res.ok
    THEN Append(loads, Load(dst, self.symbols_map[sym].lit.int))
    ELSE loads

\* the number of instructions load_symbol has put in a body buffer
RECURSIVE InstrCount(_)
InstrCount(buf) ==
    IF buf = << >> THEN 0
    ELSE IF buf[2] = 199
         THEN 1 + InstrCount(SubSeq(buf, 8, Len(buf)))
         ELSE 1 + InstrCount(SubSeq(buf, 11, Len(buf)))

Init ==
    /\ target \in Targets
    /\ backend = (IF new(target).ok THEN new(target).val ELSE None)
    /\ op = Call("new", "-", "-")
    /\ ret = (IF new(target).ok THEN Ok("Self") ELSE new(target))
    /\ hist = [s \in Symbols |-> "none"]
    /\ loads = << >>

Reset ==
    /\ backend # None
    /\ backend' = reset(backend)
    /\ op' = Call("reset", "-", "-")
    /\ ret' = Ok("()")
    /\ hist' = [s \in Symbols |-> "reset"]
    /\ loads' = << >>
    /\ UNCHANGED target

BindIn(syms, lits) ==
    /\ backend # None
    /\ \E sym \in syms, lit \in lits :
        /\ backend' = set_symbol_to_lit(backend, sym, lit)
        /\ op' = BindCall(sym, lit)
        /\ hist' = [hist EXCEPT ![sym] = "bind"]
    /\ ret' = Ok("()")
    /\ UNCHANGED <<target, loads>>

SetSymbolToLit == BindIn(Symbols, Lits)

FreeSymbol ==
    /\ backend # None
    /\ \E sym \in Symbols :
        /\ backend' = free_symbol(backend, sym)
        /\ op' = Call("free_symbol", "-", sym)
        /\ hist' = [hist EXCEPT ![sym] = "release"]
    /\ ret' = Ok("()")
    /\ UNCHANGED <<target, loads>>

ReturnIn(syms, max) ==
    /\ backend # None
    /\ InstrCount(backend.buf) < max
    /\ \E sym \in syms :
        /\ backend' = return_symbol(backend, sym).self
        /\ ret' = return_symbol(backend, sym).res
        /\ op' = Call("return_symbol", RETURN_REG, sym)
        /\ loads' = Logged(backend, RETURN_REG, sym)
    /\ UNCHANGED <<target, hist>>

ReturnSymbol == ReturnIn(Symbols, MaxLoads)

LoadIn(syms, dsts, max) ==
    /\ backend # None
    /\ InstrCount(backend.buf) < max
    /\ \E sym \in syms, dst \in dsts :
        /\ backend' = load_symbol(backend, dst, sym).self
        /\ ret' = load_symbol(backend, dst, sym).res
        /\ op' = Call("load_symbol", dst, sym)
        /\ loads' = Logged(backend, dst, sym)
    /\ UNCHANGED <<target, hist>>

LoadSymbol == LoadIn(Symbols, DstRegs, MaxLoads)

Finalize ==
    /\ backend # None
    /\ backend' = finalize_self(backend)
    /\ ret' = finalize(backend)
    /\ op' = Call("finalize", "-", "-")
    /\ UNCHANGED <<target, hist, loads>>

Next ==
    \/ Reset
    \/ SetSymbolToLit
    \/ FreeSymbol
    \/ ReturnSymbol
    \/ LoadSymbol
    \/ Finalize

Spec == Init /\ [][Next]_vars

(* The same backend fed every literal around the ends of the i32 range *)

WideSetSymbolToLit == BindIn(WideSymbols, WideLits)

WideReturnSymbol == ReturnIn(WideSymbols, MaxWideLoads)

WideLoadSymbol == LoadIn(WideSymbols, WideDstRegs, MaxWideLoads)

WideFinalize ==
    /\ backend # None
    /\ backend' = finalize_self(backend)
    /\ ret' = finalize(backend)
    /\ op' = Call("finalize", "-", "-")
    /\ UNCHANGED <<target, hist, loads>>

NextWide ==
    \/ WideSetSymbolToLit
    \/ WideReturnSymbol
    \/ WideLoadSymbol
    \/ WideFinalize

SpecWide == Init /\ [][NextWide]_vars

(* The same backend started with a table that holds storages of every     *)
(* kind the SymbolStorage enum has: load_symbol as a function of the entry *)

InitStorage ==
    /\ target \in Targets
    /\ new(target).ok
    /\ \E m \in [Symbols -> Storages \cup {None}] :
          backend = [new(target).val EXCEPT !.symbols_map =
                        [s \in {t \in Symbols : m[t] # None} |-> m[s]]]
    /\ op = Call("new", "-", "-")
    /\ ret = Ok("Self")
    /\ hist = [s \in Symbols |->
                  IF s \in DOMAIN backend.symbols_map THEN "bind" ELSE "none"]
    /\ loads = << >>

NextStorage ==
    \/ FreeSymbol
    \/ ReturnSymbol
    \/ LoadSymbol
    \/ Finalize

SpecStorage == InitStorage /\ [][NextStorage]_vars

-----------------------------------------------------------------------------
(* Vocabulary of the properties *)

IsLoad(c) == c.name \in {"load_symbol", "return_symbol"}

\* push rbp ; mov rbp, rsp
PrologueBytes == << 85, 72, 137, 229 >>

\* pop rbp
EpilogueBytes == << 93 >>

\* ret
ReturnBytes == << 195 >>

HasPrologue(out) == Len(out) >= 4 /\ SubSeq(out, 1, 4) = PrologueBytes

\* pop rbp right before the last byte
HasEpilogue(out) == Len(out) >= 2 /\ out[Len(out) - 1] = 93

\* the bytes a step has put at the end of the body buffer
Appended == SubSeq(backend'.buf, Len(backend.buf) + 1, Len(backend'.buf))

\* -2^31 <= v <= 2^31 - 1, read off the limbs: the upper 33 bits are all
\* equal
InI32Range(v) ==
    \/ v.hi = 0 /\ v.mid < 32768
    \/ v.hi = -1 /\ v.mid >= 32768

\* values the fields leaf_proc and stack_size can be given
StackSizes == {0, 31, 32, 33, 127, 128, 129, 200}

-----------------------------------------------------------------------------
(* C1: requires_stack_modification() is true if and only if leaf_proc is   *)
(* false or stack_size is strictly greater than shadow_space_size +        *)
(* red_zone_size.                                                          *)
C1_RequiresFrameIff ==
    backend # None =>
        ( requires_stack_modification(backend)
          <=> ( \/ ~backend.leaf_proc
                \/ backend.stack_size >
                       backend.shadow_space_size + backend.red_zone_size ) )

(* C2: with leaf_proc true and stack_size within shadow + red zone,        *)
(* finalize() returns the body bytes followed by the near return and an    *)
(* empty relocation list; for System-V, after bind_literal(S, 42) and      *)
(* return_symbol(S), that is mov rax, 42 (32-bit immediate) ; ret.         *)
C2_LeafBodyThenReturn ==
    ( /\ backend # None
      /\ op.name = "finalize"
      /\ backend.leaf_proc
      /\ backend.stack_size <= backend.shadow_space_size + backend.red_zone_size )
    => /\ ret.ok
       /\ ret.val.bytes = backend.buf \o ReturnBytes
       /\ ret.val.relocs = << >>
       /\ ( /\ target.cc = "SystemV"
            /\ backend.buf = << 72, 199, 192, 42, 0, 0, 0 >> )
          => ret.val.bytes = << 72, 199, 192, 42, 0, 0, 0, 195 >>

(* C3: the bytes finalize() returns end with the near return, and the      *)
(* prologue (push rbp ; mov rbp, rsp) is at their start if and only if the *)
(* epilogue (pop rbp) is right before that return.  The same holds of      *)
(* finalize() for every value the fields leaf_proc and stack_size can be   *)
(* given: its output is the body between both or between neither.          *)
C3_FramePairedAndReturns ==
    ( backend # None /\ op.name = "finalize" ) =>
        /\ ret.ok
        /\ LET out == ret.val.bytes IN
               /\ out[Len(out)] = 195
               /\ HasPrologue(out) <=> HasEpilogue(out)
               /\ \/ out = PrologueBytes \o backend.buf \o EpilogueBytes \o ReturnBytes
                  \/ out = backend.buf \o ReturnBytes
        /\ \A lp \in BOOLEAN, ss \in StackSizes :
               LET out == finalize([backend EXCEPT !.leaf_proc = lp,
                                                   !.stack_size = ss]).val.bytes
               IN  \/ out = PrologueBytes \o backend.buf \o EpilogueBytes \o ReturnBytes
                   \/ out = backend.buf \o ReturnBytes

C3_Witness ==
    /\ backend # None
    /\ op.name = "finalize"
    /\ backend.buf # << >>
    /\ HasPrologue(ret.val.bytes)
    /\ HasEpilogue(ret.val.bytes)

(* C4: a successful load of a symbol bound to Literal(Int(v)) puts exactly *)
(* one instruction at the end of the body buffer: the 32-bit-immediate     *)
(* move (7 bytes, opcode C7) when -2^31 <= v <= 2^31 - 1 and the           *)
(* 64-bit-immediate move (10 bytes, opcode B8+r) for every other v.        *)
C4_ImmediateWidth ==
    [][ ( IsLoad(op') /\ ret'.ok ) =>
          LET v == backend.symbols_map[op'.sym].lit.int
              d == op'.dst
          IN  /\ SubSeq(backend'.buf, 1, Len(backend.buf)) = backend.buf
              /\ IF InI32Range(v)
                 THEN /\ Len(Appended) = 7
                      /\ Appended[2] = 199
                      /\ Appended = mov_register64bit_immediate32bit(<< >>, d, as_i32(v))
                 ELSE /\ Len(Appended) = 10
                      /\ Appended[2] = 184 + (RegNum(d) % 8)
                      /\ Appended = mov_register64bit_immediate64bit(<< >>, d, v)
      ]_vars

\* -2^31 - 1 has been loaded with the 64-bit immediate
C4_Witness ==
    /\ backend # None
    /\ IsLoad(op) /\ ret.ok
    /\ backend.symbols_map[op.sym].lit.int = I64(-1, 32767, 65535)
    /\ Len(backend.buf) = 10

(* C5: a load of s fails with the unknown-symbol error exactly when s has  *)
(* no entry in symbols_map, and s has an entry exactly when the last call  *)
(* that touched its entry is a bind (not none, not a release, not a        *)
(* reset).                                                                 *)
C5_UnknownIffUnbound ==
    [][ /\ backend' # None =>
            \A s \in Symbols :
                s \in DOMAIN backend'.symbols_map <=> hist'[s] = "bind"
        /\ IsLoad(op') =>
            /\ ret' = UnknownSymbol(op'.sym) <=> op'.sym \notin DOMAIN backend.symbols_map
            /\ ret' = UnknownSymbol(op'.sym) <=> hist[op'.sym] # "bind"
      ]_vars

\* a load of a released symbol has failed
C5_Witness ==
    /\ IsLoad(op)
    /\ ret = UnknownSymbol(op.sym)
    /\ hist[op.sym] = "release"

(* C6: a load never changes symbols_map; a load of a symbol bound to an    *)
(* Int literal succeeds; a load repeated with the same register and symbol *)
(* right after a successful one succeeds again and puts the same bytes at  *)
(* the end of the body buffer as the one before it did.                    *)
C6_LoadKeepsTable ==
    [][ IsLoad(op') =>
          /\ backend'.symbols_map = backend.symbols_map
          /\ ( /\ op'.sym \in DOMAIN backend.symbols_map
               /\ backend.symbols_map[op'.sym].lit.tag = "Int" )
             => ret'.ok
          /\ ( op = op' /\ ret.ok )
             => /\ ret'.ok
                /\ Len(Appended) > 0
                /\ Appended = SubSeq(backend.buf,
                                     Len(backend.buf) - Len(Appended) + 1,
                                     Len(backend.buf))
      ]_vars

\* the same load has been done twice and the body is the same bytes twice
C6_Witness ==
    /\ backend # None
    /\ IsLoad(op) /\ ret.ok
    /\ InstrCount(backend.buf) = 2
    /\ LET n == Len(backend.buf) \div 2 IN
           SubSeq(backend.buf, 1, n) = SubSeq(backend.buf, n + 1, 2 * n)
    /\ backend.symbols_map[op.sym].lit.tag = "Int"

(* C7: a load that returns an error leaves the whole struct as it was      *)
(* (body buffer, symbols_map, leaf_proc, stack_size), so finalize() gives  *)
(* the same bytes after it as before it.                                   *)
C7_FailedLoadChangesNothing ==
    [][ ( IsLoad(op') /\ ~ret'.ok ) =>
          /\ backend' = backend
          /\ finalize(backend') = finalize(backend)
      ]_vars

\* a load of a symbol bound to a Bool has failed on a body that holds bytes
C7_Witness ==
    /\ backend # None
    /\ IsLoad(op) /\ ~ret.ok
    /\ op.sym \in DOMAIN backend.symbols_map
    /\ ret = NotYetImplemented(backend.symbols_map[op.sym])
    /\ backend.buf # << >>

(* C8: right after reset() symbols_map and the body buffer are empty,      *)
(* every load fails with the unknown-symbol error, finalize() gives the    *)
(* bytes it gives on a backend fresh from new() for the same target, and   *)
(* the struct as a whole equals that fresh one.                            *)
C8_ResetGivesFresh ==
    ( backend # None /\ op.name = "reset" ) =>
        /\ backend.symbols_map = EmptyMap
        /\ backend.buf = << >>
        /\ \A s \in Symbols, d \in Registers :
               load_symbol(backend, d, s).res = UnknownSymbol(s)
        /\ finalize(backend) = finalize(new(target).val)
        /\ backend = new(target).val

C8_Witness ==
    /\ backend # None
    /\ op.name = "reset"
    /\ target.cc = "WindowsFastcall"
    /\ \A s \in Symbols : hist[s] = "reset"

(* C9: new() gives a backend exactly when the default calling convention   *)
(* resolves to SystemV or WindowsFastcall; for every other resolution,     *)
(* one that failed included, it gives the "unsupported backend" error and  *)
(* no backend.                                                             *)
C9_UnsupportedFails ==
    /\ backend = None <=> ~( target.ok /\ target.cc \in {"SystemV", "WindowsFastcall"} )
    /\ backend = None =>
           /\ op.name = "new"
           /\ ~ret.ok
           /\ ret.err \in { "unsupported backend: Ok(WasmBasicCAbi)",
                            "unsupported backend: Err(())" }
    /\ ( backend # None /\ op.name = "new" ) => ret.ok

\* the convention could not be resolved and new() has failed
C9_Witness ==
    /\ ~target.ok
    /\ backend = None
    /\ ~ret.ok

(* C10: a backend fresh from new() has leaf_proc true, an empty body       *)
(* buffer, empty symbols_map and last_seen_map and stack_size 0; for       *)
(* SystemV the parameter registers RDI, RSI, RDX, RCX, R8, R9, ten         *)
(* caller-saved and six callee-saved registers, shadow space 0 and red     *)
(* zone 128; for WindowsFastcall the parameter registers RCX, RDX, R8, R9, *)
(* shadow space 32 and red zone 0.                                         *)
C10_FreshFields ==
    ( backend # None /\ op.name = "new" ) =>
        /\ backend.leaf_proc = TRUE
        /\ backend.buf = << >>
        /\ backend.symbols_map = EmptyMap
        /\ last_seen_map(backend) = EmptyMap
        /\ backend.stack_size = 0
        /\ target.cc = "SystemV" =>
               /\ backend.gp_param_regs = << "RDI", "RSI", "RDX", "RCX", "R8", "R9" >>
               /\ Cardinality(backend.caller_saved_regs) = 10
               /\ Cardinality(backend.callee_saved_regs) = 6
               /\ backend.shadow_space_size = 0
               /\ backend.red_zone_size = 128
        /\ target.cc = "WindowsFastcall" =>
               /\ backend.gp_param_regs = << "RCX", "RDX", "R8", "R9" >>
               /\ backend.shadow_space_size = 32
               /\ backend.red_zone_size = 0

C10_Witness ==
    /\ backend # None
    /\ op.name = "new"
    /\ target.cc = "WindowsFastcall"
    /\ Len(backend.gp_param_regs) = 4

\* the calling-convention data of a backend
Profile(self) ==
    [ gp_param_regs |-> self.gp_param_regs,
      caller_saved_regs |-> self.caller_saved_regs,
      callee_saved_regs |-> self.callee_saved_regs,
      shadow_space_size |-> self.shadow_space_size,
      red_zone_size |-> self.red_zone_size ]

IsIntLiteral(x) == x.kind = "Literal" /\ x.lit.tag = "Int"

\* the instruction a logged load stands for
InstrOf(l) ==
    IF InI32Range(l.val)
    THEN mov_register64bit_immediate32bit(<< >>, l.dst, as_i32(l.val))
    ELSE mov_register64bit_immediate64bit(<< >>, l.dst, l.val)

\* the instructions of a log of loads, one after the other
RECURSIVE BodyOf(_)
BodyOf(log) ==
    IF log = << >> THEN << >>
    ELSE InstrOf(Head(log)) \o BodyOf(Tail(log))

(* C11: a load of a symbol whose entry is not an Int literal (a Register   *)
(* storage, a Stack storage, a Literal that is no Int) returns the         *)
(* not-yet-implemented error for that entry, which is not the              *)
(* unknown-symbol error, and puts no byte in the body buffer.              *)
C11_OtherStorageNotYetImplemented ==
    [][ ( /\ IsLoad(op')
          /\ op'.sym \in DOMAIN backend.symbols_map
          /\ ~IsIntLiteral(backend.symbols_map[op'.sym]) )
        => /\ ~ret'.ok
           /\ ret' = NotYetImplemented(backend.symbols_map[op'.sym])
           /\ ret' # UnknownSymbol(op'.sym)
           /\ backend'.buf = backend.buf
      ]_vars

\* a load of a symbol kept in a Register has failed, on a body with bytes
C11_Witness ==
    /\ IsLoad(op) /\ ~ret.ok
    /\ op.sym \in DOMAIN backend.symbols_map
    /\ backend.symbols_map[op.sym].kind = "Register"
    /\ ret = NotYetImplemented(backend.symbols_map[op.sym])
    /\ backend.buf # << >>

(* C12: no operation changes the calling-convention data: parameter        *)
(* registers, caller-saved set, callee-saved set, shadow_space_size and    *)
(* red_zone_size are in every state what new() made them.                  *)
C12_ProfileKept ==
    [][ /\ backend # None => ( backend' # None /\ Profile(backend') = Profile(backend) )
        /\ backend' # None => Profile(backend') = Profile(new(target).val)
      ]_vars

\* a Windows backend that has been bound, loaded and reset
C12_Witness ==
    /\ backend # None
    /\ target.cc = "WindowsFastcall"
    /\ op.name = "reset"
    /\ Profile(backend) = Profile(WindowsFastcallBackend)
    /\ backend.shadow_space_size = 32

(* C13: set_symbol_to_lit(s, v) makes the entry of s Literal(v) whatever   *)
(* it was, leaves the body buffer, every other entry and every other field *)
(* as they were, and done once more with the same s and v changes nothing; *)
(* a load of s right after it emits v.                                     *)
C13_BindSetsEntry ==
    [][ op'.name = "set_symbol_to_lit" =>
          LET s == op'.sym
              v == op'.lit
          IN  /\ DOMAIN backend'.symbols_map = DOMAIN backend.symbols_map \cup {s}
              /\ backend'.symbols_map[s] = Literal(v)
              /\ \A t \in DOMAIN backend.symbols_map \ {s} :
                     backend'.symbols_map[t] = backend.symbols_map[t]
              /\ backend' = [backend EXCEPT !.symbols_map = backend'.symbols_map]
              /\ set_symbol_to_lit(backend', s, v) = backend'
              /\ v.tag = "Int" =>
                     load_symbol(backend', RETURN_REG, s).self.buf
                         = backend.buf \o InstrOf(Load(RETURN_REG, v.int))
      ]_vars

\* s1 was loaded as 2^31 and is now bound to 42, next to an entry of s2
C13_Witness ==
    /\ backend # None
    /\ op.name = "set_symbol_to_lit" /\ op.sym = "s1"
    /\ op.lit = IntLit(I64(0, 0, 42))
    /\ "s2" \in DOMAIN backend.symbols_map
    /\ backend.symbols_map["s2"] = Literal(BoolLit(TRUE))
    /\ loads = << Load(RETURN_REG, I64(0, 32768, 0)) >>

(* C14: free_symbol(s) removes the entry of s and nothing else: the body   *)
(* buffer, every other entry and every other field stay, it reports no     *)
(* error, and when s has no entry the struct is not changed at all.        *)
C14_FreeRemovesOnlyEntry ==
    [][ op'.name = "free_symbol" =>
          LET s == op'.sym IN
              /\ ret'.ok
              /\ DOMAIN backend'.symbols_map = DOMAIN backend.symbols_map \ {s}
              /\ \A t \in DOMAIN backend'.symbols_map :
                     backend'.symbols_map[t] = backend.symbols_map[t]
              /\ backend' = [backend EXCEPT !.symbols_map = backend'.symbols_map]
              /\ s \notin DOMAIN backend.symbols_map => backend' = backend
      ]_vars

\* s1 has been released, s2 is still bound and the body holds bytes
C14_Witness ==
    /\ backend # None
    /\ op.name = "free_symbol" /\ op.sym = "s1"
    /\ hist["s1"] = "release"
    /\ "s2" \in DOMAIN backend.symbols_map
    /\ backend.buf # << >>

(* C15: the body buffer is the instructions of the loads that returned Ok  *)
(* since new() or the last reset(), in call order, and finalize() returns  *)
(* those bytes between the prologue and the epilogue (or between nothing)  *)
(* followed by the return; binds, releases and failed loads add nothing    *)
(* and change no byte that is there.                                       *)
C15_BodyIsLoadsInOrder ==
    backend # None =>
        /\ backend.buf = BodyOf(loads)
        /\ op.name = "finalize" =>
               \/ ret.val.bytes = PrologueBytes \o BodyOf(loads)
                                      \o EpilogueBytes \o ReturnBytes
               \/ ret.val.bytes = BodyOf(loads) \o ReturnBytes

\* two different loads, then a release, then finalize
C15_Witness ==
    /\ backend # None
    /\ op.name = "finalize"
    /\ Len(loads) = 2
    /\ loads[1] # loads[2]
    /\ \E s \in Symbols : hist[s] = "release"

(* C16: finalize() never returns an error and the relocation list it       *)
(* returns is empty.                                                       *)
C16_FinalizeOkNoRelocs ==
    op.name = "finalize" =>
        /\ ret.ok
        /\ ret.val.relocs = << >>
        /\ Len(ret.val.bytes) > 0

\* finalize on an empty body, with a table that holds an entry
C16_Witness ==
    /\ backend # None
    /\ op.name = "finalize"
    /\ ret.ok
    /\ backend.buf = << >>
    /\ DOMAIN backend.symbols_map = Symbols

(* C17: caller_saved_regs and callee_saved_regs are disjoint, together     *)
(* they are all 16 general-purpose registers, and every parameter register *)
(* is caller-saved.                                                        *)
C17_RegisterPartition ==
    backend # None =>
        /\ backend.caller_saved_regs \cap backend.callee_saved_regs = {}
        /\ backend.caller_saved_regs \cup backend.callee_saved_regs = Registers
        /\ Cardinality(backend.caller_saved_regs)
               + Cardinality(backend.callee_saved_regs) = 16
        /\ \A i \in 1 .. Len(backend.gp_param_regs) :
               backend.gp_param_regs[i] \in backend.caller_saved_regs

C17_Witness ==
    /\ backend # None
    /\ target.cc = "WindowsFastcall"
    /\ Cardinality(backend.caller_saved_regs) = 7
    /\ Cardinality(backend.callee_saved_regs) = 9

(* C18: in every state leaf_proc is true and stack_size is 0, no step      *)
(* changes either, and requires_stack_modification() gives what it gives   *)
(* right after new().                                                      *)
C18_LeafAndStackConstant ==
    [][ backend' # None =>
          /\ backend'.leaf_proc = TRUE
          /\ backend'.stack_size = 0
          /\ backend # None =>
                 /\ backend'.leaf_proc = backend.leaf_proc
                 /\ backend'.stack_size = backend.stack_size
          /\ requires_stack_modification(backend')
                 = requires_stack_modification(new(target).val)
      ]_vars

\* a System-V backend after one load that returned Ok
C18_Witness ==
    /\ backend # None
    /\ target.cc = "SystemV"
    /\ IsLoad(op) /\ ret.ok
    /\ Len(loads) = 1
    /\ backend.leaf_proc /\ backend.stack_size = 0

(* C19: finalize() leaves the struct as it was, so a finalize() right      *)
(* after a finalize() returns the same, and a load right after a           *)
(* finalize() puts its bytes behind the body that finalize() returned.     *)
C19_FinalizeReadsOnly ==
    [][ /\ op'.name = "finalize" =>
            /\ backend' = backend
            /\ finalize(backend') = ret'
            /\ op.name = "finalize" => ret' = ret
        /\ ( op.name = "finalize" /\ IsLoad(op') /\ ret'.ok ) =>
            /\ \/ ret.val.bytes = PrologueBytes \o backend.buf
                                       \o EpilogueBytes \o ReturnBytes
               \/ ret.val.bytes = backend.buf \o ReturnBytes
            /\ Len(backend'.buf) > Len(backend.buf)
            /\ SubSeq(backend'.buf, 1, Len(backend.buf)) = backend.buf
      ]_vars

\* finalize on a Windows backend whose body holds one instruction
C19_Witness ==
    /\ backend # None
    /\ target.cc = "WindowsFastcall"
    /\ op.name = "finalize"
    /\ Len(loads) = 1
    /\ backend.buf = BodyOf(loads)

====
